---- MODULE Spec2Model ----
(***************************************************************************)
(* Model of the image gallery server (src/app.js): an Express process      *)
(* with four route handlers over two external stores, the blob container   *)
(* (containerClient) and the likes table (tableClient).  Every await of a  *)
(* handler is a point where other requests interleave, so each handler is  *)
(* one action per await.                                                   *)
(***************************************************************************)
EXTENDS Integers, Sequences, FiniteSets, TLC

\* ------------------------------------------------------------------ bounds
\* Requests the server receives in one behaviour.
MaxReq == 3
\* Longest blob_names list of a POST /delete.
MaxBatch == 3
\* Milliseconds the wall clock advances after the process starts.
MaxTicks == 1
\* Wall clock (ms) when the process starts.
Epoch == 9

\* ----------------------------------------------------------------- strings
\* A string is a sequence of one-character strings.

\* Collation order of the characters that occur, as localeCompare ranks them:
\* punctuation before digits before letters.
Collation == <<"_", ".", "0", "1", "2", "3", "4", "5", "6", "7", "8", "9",
               "a", "b", "c", "p">>

Rank(c) == CHOOSE i \in 1..Len(Collation) : Collation[i] = c

\* a.localeCompare(b): -1, 0 or 1.
RECURSIVE LocaleCompare(_, _)
LocaleCompare(a, b) ==
    IF a = <<>> /\ b = <<>> THEN 0
    ELSE IF a = <<>> THEN -1
    ELSE IF b = <<>> THEN 1
    ELSE IF Rank(Head(a)) < Rank(Head(b)) THEN -1
    ELSE IF Rank(Head(a)) > Rank(Head(b)) THEN 1
    ELSE LocaleCompare(Tail(a), Tail(b))

DigitChars == <<"0", "1", "2", "3", "4", "5", "6", "7", "8", "9">>

\* Decimal digits of n, without padding (Number to String).
RECURSIVE NumToString(_)
NumToString(n) ==
    IF n < 10 THEN <<DigitChars[n + 1]>>
    ELSE Append(NumToString(n \div 10), DigitChars[(n % 10) + 1])

\* parseInt(v) of a value that prints as the decimal string s.
RECURSIVE ParseDigits(_, _)
ParseDigits(s, acc) ==
    IF s = <<>> THEN acc
    ELSE ParseDigits(Tail(s),
                     10 * acc + ((CHOOSE i \in 1..10 : DigitChars[i] = Head(s)) - 1))

ParseInt(n) == ParseDigits(NumToString(n), 0)

\* Digits of the timestamp: toISOString() prints every field of the date
\* zero-padded to a fixed width, and the replace() drops the separators.
TsWidth == 2

RECURSIVE PadStart(_, _)
PadStart(s, w) == IF Len(s) >= w THEN s ELSE PadStart(<<"0">> \o s, w)

\* new Date().toISOString().replace(/[-:.TZ]/g, '') at wall-clock time t.
Timestamp(t) == PadStart(NumToString(t), TsWidth)

\* path.extname(name): from the last "." to the end; "" when there is no "."
\* or the only "." is the first character.
Extname(name) ==
    LET dots == {i \in 1..Len(name) : name[i] = "."}
    IN  IF dots = {} THEN <<>>
        ELSE LET last == CHOOSE i \in dots : \A j \in dots : j <= i
             IN  IF last = 1 THEN <<>> ELSE SubSeq(name, last, Len(name))

\* A name built without the random token (variant: C9 fails with it).
UniqueFilenameNoUuid(timestamp, uuid, extension) ==
    timestamp \o <<"_">> \o extension

\* `${timestamp}_${uuidv4()}${extension}`
UniqueFilename(timestamp, uuid, extension) ==
    timestamp \o <<"_">> \o uuid \o extension


\* The comparator with its operands swapped (variant: C5 fails with it).
CompareBlobsAscending(a, b) == LocaleCompare(a, b)

\* The comparator of blobs.sort: (a, b) => b.name.localeCompare(a.name).
CompareBlobs(a, b) == LocaleCompare(b, a)

\* Array.prototype.sort with CompareBlobs: x goes before the first element
\* it compares below (a stable insertion).
RECURSIVE InsertSorted(_, _)
InsertSorted(x, s) ==
    IF s = <<>> THEN <<x>>
    ELSE IF CompareBlobs(x, Head(s)) < 0 THEN <<x>> \o s
    ELSE <<Head(s)>> \o InsertSorted(x, Tail(s))

RECURSIVE SortBlobs(_)
SortBlobs(s) ==
    IF s = <<>> THEN <<>> ELSE InsertSorted(Head(s), SortBlobs(Tail(s)))

\* Every order in which listBlobsFlat may yield the blobs of a set.
Listings(S) ==
    {s \in [1..Cardinality(S) -> S] : \A i, j \in 1..Cardinality(S) : s[i] = s[j] => i = j}

\* ------------------------------------------------------------------- state
VARIABLES
    env,          \* process.env: AZURE_STORAGE_ACCOUNT_NAME, AZURE_STORAGE_CONTAINER_NAME
    proc,         \* the Node process: "listening" or "exited"
    tableInit,    \* the createTable IIFE: "pending" or "done"
    tableExists,  \* whether LikesTable exists in the storage account
    blobs,        \* the container: blob name -> [data, stamp]
    likesTable,   \* partition 'Likes' of LikesTable: rowKey -> likes
    now,          \* the wall clock, in ms
    issued,       \* the uuids uuidv4() has returned
    reqs          \* the HTTP requests received, in order of arrival

vars == <<env, proc, tableInit, tableExists, blobs, likesTable, now, issued, reqs>>

\* Values of the two settings: unset, or a name.
EnvValues == {<<>>, <<"a">>}

\* uuidv4() returns a random 122-bit token; here a token is one of these, and
\* no token is returned twice.
UuidChars == <<"a", "b", "c", "1", "2", "3">>
Uuids == {<<UuidChars[i]>> : i \in 1..MaxReq}

\* The files a multipart upload may carry; absent stands for req.file undefined.
NoFile == [present |-> FALSE, originalname |-> <<>>, buffer |-> 0]
Files == {NoFile,
          [present |-> TRUE, originalname |-> <<"c", ".", "p">>, buffer |-> 1]}

\* A name under which nothing is ever stored.
StrayKey == <<"c", "c">>

\* The names a client may send: those of the gallery, those liked before,
\* and a stray one.
Targets == DOMAIN blobs \cup DOMAIN likesTable \cup {StrayKey}
Deletable == DOMAIN blobs \cup {StrayKey}

\* req.body.blob_names: a string, a list of strings, or undefined.
StringBody(s) == [type |-> "string", str |-> s, arr |-> <<>>]
ArrayBody(a) == [type |-> "array", str |-> <<>>, arr |-> a]
UndefinedBody == [type |-> "undefined", str |-> <<>>, arr |-> <<>>]
Undefined == <<"undefined">>

Bodies ==
    {StringBody(s) : s \in Deletable}
    \cup {ArrayBody(a) : a \in UNION {[1..n -> Deletable] : n \in 1..MaxBatch}}
    \cup {UndefinedBody}

\* The stores are maps from names to values.
Empty == [k \in {} |-> 0]
Put(f, k, v) == [x \in DOMAIN f \cup {k} |-> IF x = k THEN v ELSE f[x]]
Remove(f, k) == [x \in DOMAIN f \ {k} |-> f[x]]

\* Responses.
NoRes == [type |-> "none", status |-> 0, success |-> FALSE, likes |-> 0, blobs |-> <<>>]
Render(b) == [type |-> "render", status |-> 200, success |-> FALSE, likes |-> 0, blobs |-> b]
SendError == [type |-> "send", status |-> 200, success |-> FALSE, likes |-> 0, blobs |-> <<>>]
Redirect == [type |-> "redirect", status |-> 302, success |-> FALSE, likes |-> 0, blobs |-> <<>>]
JsonLikes(n) == [type |-> "json", status |-> 200, success |-> TRUE, likes |-> n, blobs |-> <<>>]
JsonError == [type |-> "json", status |-> 500, success |-> FALSE, likes |-> 0, blobs |-> <<>>]

\* A request as it arrives: its inputs, and the locals of its handler.
NewReq(kind) ==
    [kind |-> kind,            \* "get", "upload", "delete" or "like"
     pc |-> "start",           \* the await the handler is suspended at, or "done"
     blobName |-> <<>>,        \* like: req.params.blobName; upload: uniqueFilename
     file |-> NoFile,          \* upload: req.file
     body |-> UndefinedBody,   \* delete: req.body.blob_names
     names |-> <<>>,           \* get: blobs (sorted names); delete: blobNames
     i |-> 0,                  \* position of the for loop in names
     likes |-> 0,              \* get: likes; like: entity.likes
     blobUrls |-> <<>>,        \* get: blobUrls
     res |-> NoRes,            \* the response sent
     listed |-> {},            \* get: the names listBlobsFlat yielded
     failed |-> FALSE,         \* whether an error has reached the handler's catch
     status |-> 0,             \* statusCode the last call has thrown, 0 if none
     at |-> 0,                 \* upload: the wall clock read for the timestamp
     calls |-> <<>>]           \* the store calls issued, in order

\* A check that looks at the account name only (variant: C11 fails with it).
ConfigMissingAccountOnly(e) == e.account = <<>>

\* if (!accountName || !containerName): process.exit(1) before any client is
\* built, the createTable IIFE is started or app.listen is called.
ConfigMissing(e) == e.account = <<>> \/ e.container = <<>>

Init ==
    /\ env \in [account : EnvValues, container : EnvValues]
    /\ proc = IF ConfigMissing(env) THEN "exited" ELSE "listening"
    /\ tableInit = "pending"
    /\ tableExists \in BOOLEAN
    /\ blobs = Empty
    /\ likesTable = Empty
    /\ now = Epoch
    /\ issued = {}
    /\ reqs = <<>>


Listening == proc = "listening"
InFlight(r) == r \in 1..Len(reqs) /\ reqs[r].pc # "done"
Quiet == \A r \in 1..Len(reqs) : reqs[r].pc = "done"
CanArrive == Listening /\ Len(reqs) < MaxReq

\* What a store call may do besides answering: throw an error that is not a 404.
Outcomes == {"ok", "error"}

\* ----------------------------------------------------------------- startup
\* Whether the catch of the createTable IIFE ends the process.
CreateTableFatal(code) == code # "TableAlreadyExists"

\* The createTable IIFE resumes: the table is created, or createTable has
\* thrown TableAlreadyExists or another error.  process.exit(1) ends the
\* process with its handlers: the requests in flight are never answered.
CreateTable ==
    /\ Listening /\ tableInit = "pending"
    /\ \E o \in Outcomes :
         LET code == IF o = "error" THEN "RestError"
                     ELSE IF tableExists THEN "TableAlreadyExists" ELSE "none"
         IN  IF code # "none" /\ CreateTableFatal(code)
             THEN /\ proc' = "exited"
                  /\ reqs' = <<>>
                  /\ issued' = {}
                  /\ UNCHANGED <<tableInit, tableExists>>
             ELSE /\ tableInit' = "done"
                  /\ tableExists' = TRUE
                  /\ UNCHANGED <<proc, reqs, issued>>
    /\ UNCHANGED <<env, blobs, likesTable, now>>

\* Time passes.
Tick ==
    /\ Listening /\ now < Epoch + MaxTicks
    /\ now' = now + 1
    /\ UNCHANGED <<env, proc, tableInit, tableExists, blobs, likesTable, issued, reqs>>

\* ------------------------------------------------------------------- GET /
\* The handler runs up to its first await: listBlobsFlat() is called.
GetStart ==
    /\ CanArrive
    /\ reqs' = Append(reqs, [NewReq("get") EXCEPT !.pc = "list",
                                                  !.calls = <<<<"listBlobsFlat", <<>>>>>>])
    /\ UNCHANGED <<env, proc, tableInit, tableExists, blobs, likesTable, now, issued>>

\* What the catch of GET / answers.
GetCatch == SendError

\* After the loop body of item i: the next getEntity, or the render.
GetAdvance(q, names, i, blobUrls) ==
    IF i > Len(names)
    THEN [q EXCEPT !.pc = "done", !.names = names, !.i = i, !.blobUrls = blobUrls,
                   !.likes = 0, !.res = Render(blobUrls)]
    ELSE [q EXCEPT !.pc = "getEntity", !.names = names, !.i = i, !.blobUrls = blobUrls,
                   !.likes = 0,
                   !.calls = Append(q.calls, <<"getEntity", names[i]>>)]

\* An inner catch that rethrows the 404 too (variant: C8 fails with it).
GetRethrowsAll(statusCode) == TRUE

\* Whether an error of getEntity is rethrown by the inner catch of GET /.
GetRethrows(statusCode) == statusCode # 404

GetFail(q, statusCode) ==
    [q EXCEPT !.pc = "done", !.failed = TRUE, !.status = statusCode, !.res = GetCatch]

\* The listing has been drained (or has thrown); the blobs are sorted and
\* the loop starts.
GetList(r) ==
    /\ Listening /\ InFlight(r) /\ reqs[r].kind = "get" /\ reqs[r].pc = "list"
    /\ \E o \in Outcomes :
         IF o = "ok"
         THEN \E listing \in Listings(DOMAIN blobs) :
                reqs' = [reqs EXCEPT ![r] =
                           GetAdvance([reqs[r] EXCEPT !.listed = DOMAIN blobs],
                                      SortBlobs(listing), 1, <<>>)]
         ELSE reqs' = [reqs EXCEPT ![r] = GetFail(reqs[r], 500)]
    /\ UNCHANGED <<env, proc, tableInit, tableExists, blobs, likesTable, now, issued>>

\* getEntity('Likes', blob.name) has answered: the entity, a 404, or another
\* error; then getBlobUrl calls getUserDelegationKey.
GetEntity(r) ==
    /\ Listening /\ InFlight(r) /\ reqs[r].kind = "get" /\ reqs[r].pc = "getEntity"
    /\ LET q == reqs[r]
           name == q.names[q.i]
           url == [q EXCEPT !.pc = "getBlobUrl",
                            !.calls = Append(q.calls, <<"getUserDelegationKey", name>>)]
       IN  \E o \in Outcomes :
             IF o = "ok"
             THEN IF tableExists /\ name \in DOMAIN likesTable
                  THEN reqs' = [reqs EXCEPT ![r] =
                                  [url EXCEPT !.likes = ParseInt(likesTable[name]),
                                              !.status = 0]]
                  ELSE IF GetRethrows(404)
                       THEN reqs' = [reqs EXCEPT ![r] = GetFail(q, 404)]
                       ELSE reqs' = [reqs EXCEPT ![r] = [url EXCEPT !.status = 404]]
             ELSE IF GetRethrows(500)
                  THEN reqs' = [reqs EXCEPT ![r] = GetFail(q, 500)]
                  ELSE reqs' = [reqs EXCEPT ![r] = [url EXCEPT !.status = 500]]
    /\ UNCHANGED <<env, proc, tableInit, tableExists, blobs, likesTable, now, issued>>

\* getBlobUrl(blob.name) has answered: the entry is pushed and the loop goes on.
GetBlobUrl(r) ==
    /\ Listening /\ InFlight(r) /\ reqs[r].kind = "get" /\ reqs[r].pc = "getBlobUrl"
    /\ LET q == reqs[r]
           name == q.names[q.i]
           entry == [name |-> name, url |-> name, likes |-> q.likes]
       IN  \E o \in Outcomes :
             IF o = "ok"
             THEN reqs' = [reqs EXCEPT ![r] =
                             GetAdvance([q EXCEPT !.status = 0], q.names, q.i + 1,
                                        Append(q.blobUrls, entry))]
             ELSE reqs' = [reqs EXCEPT ![r] = GetFail(q, 500)]
    /\ UNCHANGED <<env, proc, tableInit, tableExists, blobs, likesTable, now, issued>>


\* ------------------------------------------------------------ POST /upload
\* A handler without the early return (variant: C10 fails with it).
UploadAlways(file) == FALSE

\* if (!file) return res.redirect('/')
UploadSkips(file) == ~file.present

\* What the catch of POST /upload answers.
UploadCatch == SendError

\* The handler runs up to its first await: without a file it redirects at
\* once; with one it builds uniqueFilename and calls uploadData.
UploadStart ==
    /\ CanArrive
    /\ \E file \in Files :
         IF UploadSkips(file)
         THEN /\ reqs' = Append(reqs, [NewReq("upload") EXCEPT !.pc = "done", !.file = file,
                                                              !.res = Redirect])
              /\ issued' = issued
         ELSE \E uuid \in Uuids \ issued :
                LET name == UniqueFilename(Timestamp(now), uuid, Extname(file.originalname))
                IN  /\ reqs' = Append(reqs, [NewReq("upload") EXCEPT
                                               !.pc = "uploadData", !.file = file,
                                               !.blobName = name, !.at = now,
                                               !.calls = <<<<"uploadData", name>>>>])
                    /\ issued' = issued \cup {uuid}
    /\ UNCHANGED <<env, proc, tableInit, tableExists, blobs, likesTable, now>>

\* uploadData(file.buffer) has answered.
UploadData(r) ==
    /\ Listening /\ InFlight(r) /\ reqs[r].kind = "upload" /\ reqs[r].pc = "uploadData"
    /\ LET q == reqs[r]
       IN  \E o \in Outcomes :
             IF o = "ok"
             THEN /\ blobs' = Put(blobs, q.blobName, [data |-> q.file.buffer, stamp |-> q.at])
                  /\ reqs' = [reqs EXCEPT ![r] = [q EXCEPT !.pc = "done", !.res = Redirect]]
             ELSE /\ blobs' = blobs
                  /\ reqs' = [reqs EXCEPT ![r] = [q EXCEPT !.pc = "done", !.failed = TRUE,
                                                           !.status = 500,
                                                           !.res = UploadCatch]]
    /\ UNCHANGED <<env, proc, tableInit, tableExists, likesTable, now, issued>>

\* ------------------------------------------------------------ POST /delete
\* The value of a body that is not a list.
BodyValue(body) == IF body.type = "string" THEN body.str ELSE Undefined

\* What for..of yields over the body as it was sent, as in the variant
\* without the Array.isArray guard: the elements of a list, the characters
\* of a string (variant: C6 fails with it).
BlobNamesAsSent(body) ==
    IF body.type = "array" THEN body.arr
    ELSE IF body.type = "string" THEN [i \in 1..Len(body.str) |-> <<body.str[i]>>]
    ELSE <<Undefined>>

\* if (!Array.isArray(blobNames)) blobNames = [blobNames]
BlobNames(body) == IF body.type # "array" THEN <<BodyValue(body)>> ELSE body.arr

\* A catch without its return, falling through to the redirect (variant: C7
\* fails with it).
DeleteCatchFallsThrough == Redirect

\* What the catch of POST /delete answers: return res.send(...).
DeleteCatch == SendError

\* The loop of POST /delete at item i: the next delete is called, or
\* getBlockBlobClient throws on a name that is no string, or the loop is over.
DeleteAdvance(q, names, i) ==
    IF i > Len(names)
    THEN [q EXCEPT !.pc = "done", !.names = names, !.i = i, !.res = Redirect]
    ELSE IF names[i] = Undefined
    THEN [q EXCEPT !.pc = "done", !.names = names, !.i = i, !.failed = TRUE,
                   !.status = 500, !.res = DeleteCatch]
    ELSE [q EXCEPT !.pc = "delete", !.names = names, !.i = i,
                   !.calls = Append(q.calls, <<"delete", names[i]>>)]

\* A loop that goes on to the next name after a throw (variant: C4 fails
\* with it).
DeleteSkipsFailed(q, statusCode) ==
    DeleteAdvance([q EXCEPT !.failed = TRUE, !.status = statusCode], q.names, q.i + 1)

\* A delete has thrown: the loop is left for the catch.
DeleteThrown(q, statusCode) ==
    [q EXCEPT !.pc = "done", !.failed = TRUE, !.status = statusCode, !.res = DeleteCatch]

DeleteStart ==
    /\ CanArrive
    /\ \E body \in Bodies :
         reqs' = Append(reqs, DeleteAdvance([NewReq("delete") EXCEPT !.body = body],
                                            BlobNames(body), 1))
    /\ UNCHANGED <<env, proc, tableInit, tableExists, blobs, likesTable, now, issued>>

\* A delete that removes the counter record with the blob (variant: C13
\* fails with it).
DeleteBlobCascades(r) ==
    /\ Listening /\ InFlight(r) /\ reqs[r].kind = "delete" /\ reqs[r].pc = "delete"
    /\ LET q == reqs[r]
           name == q.names[q.i]
       IN  \E o \in Outcomes :
             IF o = "ok" /\ name \in DOMAIN blobs
             THEN /\ blobs' = Remove(blobs, name)
                  /\ likesTable' = Remove(likesTable, name)
                  /\ reqs' = [reqs EXCEPT ![r] = DeleteAdvance(q, q.names, q.i + 1)]
             ELSE /\ blobs' = blobs
                  /\ likesTable' = likesTable
                  /\ reqs' = [reqs EXCEPT ![r] =
                                  DeleteThrown(q, IF o = "ok" THEN 404 ELSE 500)]
    /\ UNCHANGED <<env, proc, tableInit, tableExists, now, issued>>

\* client.delete() has answered: the blob is gone, or it was not there (404),
\* or another error.
DeleteBlob(r) ==
    /\ Listening /\ InFlight(r) /\ reqs[r].kind = "delete" /\ reqs[r].pc = "delete"
    /\ LET q == reqs[r]
           name == q.names[q.i]
       IN  \E o \in Outcomes :
             IF o = "ok" /\ name \in DOMAIN blobs
             THEN /\ blobs' = Remove(blobs, name)
                  /\ reqs' = [reqs EXCEPT ![r] = DeleteAdvance(q, q.names, q.i + 1)]
             ELSE /\ blobs' = blobs
                  /\ reqs' = [reqs EXCEPT ![r] =
                                  DeleteThrown(q, IF o = "ok" THEN 404 ELSE 500)]
    /\ UNCHANGED <<env, proc, tableInit, tableExists, likesTable, now, issued>>

\* ------------------------------------------------------- POST /like/:blobName
\* The count written back without the increment (variant: C2 fails with it).
LikesKept(likes) == ParseInt(likes)

\* entity.likes = parseInt(entity.likes) + 1
LikesIncremented(likes) == ParseInt(likes) + 1

\* What the outer catch of POST /like answers.
LikeCatch == JsonError

\* Whether an error of getEntity makes the handler create the entity.
LikeCreates(statusCode) == statusCode = 404

LikeStart ==
    /\ CanArrive
    /\ \E name \in Targets :
         reqs' = Append(reqs, [NewReq("like") EXCEPT !.pc = "getEntity", !.blobName = name,
                                                     !.calls = <<<<"getEntity", name>>>>])
    /\ UNCHANGED <<env, proc, tableInit, tableExists, blobs, likesTable, now, issued>>

\* getEntity('Likes', blobName) has answered; upsertEntity is called with the
\* incremented entity, or with a new one after a 404.
LikeGetEntity(r) ==
    /\ Listening /\ InFlight(r) /\ reqs[r].kind = "like" /\ reqs[r].pc = "getEntity"
    /\ LET q == reqs[r]
           upsert == [q EXCEPT !.pc = "upsertEntity",
                               !.calls = Append(q.calls, <<"upsertEntity", q.blobName>>)]
       IN  \E o \in Outcomes :
             IF o = "ok" /\ tableExists /\ q.blobName \in DOMAIN likesTable
             THEN reqs' = [reqs EXCEPT ![r] =
                             [upsert EXCEPT !.likes = LikesIncremented(likesTable[q.blobName]),
                                            !.status = 0]]
             ELSE LET statusCode == IF o = "ok" THEN 404 ELSE 500
                  IN  IF LikeCreates(statusCode)
                      THEN reqs' = [reqs EXCEPT ![r] =
                                      [upsert EXCEPT !.likes = 1, !.status = statusCode]]
                      ELSE reqs' = [reqs EXCEPT ![r] =
                                      [q EXCEPT !.pc = "done", !.failed = TRUE,
                                                !.status = statusCode, !.res = LikeCatch]]
    /\ UNCHANGED <<env, proc, tableInit, tableExists, blobs, likesTable, now, issued>>

\* upsertEntity(entity) has answered: the entity is written whatever the
\* table holds by now, or the call has thrown.
LikeUpsertEntity(r) ==
    /\ Listening /\ InFlight(r) /\ reqs[r].kind = "like" /\ reqs[r].pc = "upsertEntity"
    /\ LET q == reqs[r]
       IN  \E o \in Outcomes :
             IF o = "ok" /\ tableExists
             THEN /\ likesTable' = Put(likesTable, q.blobName, q.likes)
                  /\ reqs' = [reqs EXCEPT ![r] = [q EXCEPT !.pc = "done", !.status = 0,
                                                           !.res = JsonLikes(q.likes)]]
             ELSE /\ likesTable' = likesTable
                  /\ reqs' = [reqs EXCEPT ![r] =
                                  [q EXCEPT !.pc = "done", !.failed = TRUE,
                                            !.status = IF o = "ok" THEN 404 ELSE 500,
                                            !.res = LikeCatch]]
    /\ UNCHANGED <<env, proc, tableInit, tableExists, blobs, now, issued>>

\* ------------------------------------------------------------ specification
Arrive == GetStart \/ UploadStart \/ DeleteStart \/ LikeStart

Resume ==
    \E r \in 1..MaxReq :
        \/ GetList(r) \/ GetEntity(r) \/ GetBlobUrl(r)
        \/ UploadData(r)
        \/ DeleteBlob(r)
        \/ LikeGetEntity(r) \/ LikeUpsertEntity(r)

\* Requests arrive at any time and interleave at every await.
Next == CreateTable \/ Tick \/ Arrive \/ Resume

Spec == Init /\ [][Next]_vars

\* A client that sends each request after the response to the one before.
NextSeq == CreateTable \/ Tick \/ (Quiet /\ Arrive) \/ Resume

SpecSeq == Init /\ [][NextSeq]_vars

\* The stores outlive the process.  An item an earlier run of the program
\* has uploaded (a millisecond before this one started, with a uuid this
\* run does not draw); that run has counted one like for it.
KeptName ==
    UniqueFilename(Timestamp(Epoch - 1), <<UuidChars[Len(UuidChars)]>>, <<".", "p">>)

\* The process starts with its settings present, against the container and
\* the table the earlier run has left.
InitRestart ==
    /\ env = [account |-> <<"a">>, container |-> <<"a">>]
    /\ proc = IF ConfigMissing(env) THEN "exited" ELSE "listening"
    /\ tableInit = "pending"
    /\ tableExists = TRUE
    /\ blobs = Put(Empty, KeptName, [data |-> 1, stamp |-> Epoch - 1])
    /\ likesTable = Put(Empty, KeptName, 1)
    /\ now = Epoch
    /\ issued = {}
    /\ reqs = <<>>

\* The restarted process, with each request sent after the response to the
\* one before.
SpecRestart == InitRestart /\ [][NextSeq]_vars


\* ------------------------------------------------------------------ claims
Reqs == 1..Len(reqs)
IsDone(r) == reqs[r].pc = "done"

\* The like requests among the first n that were answered {success: true}.
SuccessfulLikes(name, n) ==
    {r \in 1..n : /\ reqs[r].kind = "like" /\ reqs[r].blobName = name
                  /\ reqs[r].res.success}

\* The count stored for a name, 0 when there is no record.
Stored(name) == IF name \in DOMAIN likesTable THEN likesTable[name] ELSE 0

\* The wall clock read for the timestamp prefix of an uploaded name.
StampOf(name) ==
    reqs[CHOOSE r \in Reqs : reqs[r].kind = "upload" /\ reqs[r].blobName = name].at

\* C1: when all the like requests for one name, K of them, have been
\* answered with success, whatever their interleaving, the count stored for
\* the name is K.
C1_ConcurrentLikesAllCounted ==
    \A name \in Targets :
        LET L == {r \in Reqs : reqs[r].kind = "like" /\ reqs[r].blobName = name}
        IN  (L # {} /\ \A r \in L : IsDone(r) /\ reqs[r].res.success)
                => Stored(name) = Cardinality(L)

\* C2: with each request sent after the response to the one before, a name
\* never liked reads as 0, the N-th successful like of a name is answered
\* {success: true, likes: N}, the stored count is the number of successful
\* likes the running process has answered, and GET / shows that number for
\* the item.
C2_SequentialLikesCount ==
    /\ Listening
          => \A name \in Targets :
                Stored(name) = Cardinality(SuccessfulLikes(name, Len(reqs)))
    /\ \A r \in Reqs :
         /\ (reqs[r].kind = "like" /\ reqs[r].res.success)
               => reqs[r].res.likes = Cardinality(SuccessfulLikes(reqs[r].blobName, r))
         /\ (reqs[r].kind = "get" /\ reqs[r].res.type = "render")
               => \A i \in 1..Len(reqs[r].res.blobs) :
                     reqs[r].res.blobs[i].likes
                        = Cardinality(SuccessfulLikes(reqs[r].res.blobs[i].name, r))

C2_Witness ==
    \E r \in Reqs :
        /\ reqs[r].kind = "get" /\ reqs[r].res.type = "render"
        /\ \E i \in 1..Len(reqs[r].res.blobs) : reqs[r].res.blobs[i].likes = 1

\* C3: from one state to the next a counter record is never removed and its
\* count never decreases: a record appears with count 1, and a count n stays
\* or becomes n + 1.
C3_LikesNeverDecrease ==
    [][\A name \in DOMAIN likesTable \cup DOMAIN likesTable' :
          IF name \in DOMAIN likesTable
          THEN /\ name \in DOMAIN likesTable'
               /\ likesTable'[name] \in {likesTable[name], likesTable[name] + 1}
          ELSE likesTable'[name] = 1]_vars

\* C4: when the delete of the i-th name of a batch is the first to throw, the
\* handler answers with the failure text and not the redirect, the names
\* before it are gone from the container, the step restores and removes
\* nothing, deletes were called for the first i names only, and the request
\* never acts again.
C4_DeleteStopsOnFirstError ==
    [][\A r \in Reqs :
          /\ IsDone(r) => (r \in 1..Len(reqs') => reqs'[r] = reqs[r])
          /\ (/\ reqs[r].kind = "delete" /\ reqs[r].pc = "delete"
              /\ r \in 1..Len(reqs') /\ reqs'[r].failed)
                => LET q == reqs'[r]
                   IN  /\ q.pc = "done"
                       /\ q.res = SendError
                       /\ blobs' = blobs
                       /\ \A j \in 1..(q.i - 1) : q.names[j] \notin DOMAIN blobs'
                       /\ q.calls = [j \in 1..q.i |-> <<"delete", q.names[j]>>]]_vars

C4_Witness ==
    \E r \in Reqs :
        /\ reqs[r].kind = "delete" /\ IsDone(r) /\ reqs[r].failed
        /\ Len(reqs[r].names) = 3 /\ reqs[r].i = 2
        /\ reqs[r].names[1] \notin DOMAIN blobs
        /\ reqs[r].names[3] \in DOMAIN blobs

\* C5: a rendered gallery has exactly one entry per name the listing
\* yielded, in strictly descending order of name, so an item with a later
\* timestamp is never below one with an earlier timestamp.
C5_GalleryNewestFirst ==
    \A r \in Reqs :
        (reqs[r].kind = "get" /\ reqs[r].res.type = "render")
            => LET b == reqs[r].res.blobs
               IN  /\ Len(b) = Cardinality(reqs[r].listed)
                   /\ {b[i].name : i \in 1..Len(b)} = reqs[r].listed
                   /\ \A i, j \in 1..Len(b) :
                        i < j => /\ LocaleCompare(b[i].name, b[j].name) > 0
                                 /\ StampOf(b[i].name) >= StampOf(b[j].name)

C5_Witness ==
    \E r \in Reqs :
        /\ reqs[r].kind = "get" /\ reqs[r].res.type = "render"
        /\ Len(reqs[r].res.blobs) = 2
        /\ StampOf(reqs[r].res.blobs[1].name) > StampOf(reqs[r].res.blobs[2].name)

\* C6: a blob_names that is one string makes a batch of that one name: the
\* only store call of the request is one delete of the whole string, and
\* when it succeeds that item is gone.
C6_SingleStringIsOneDelete ==
    \A r \in Reqs :
        (reqs[r].kind = "delete" /\ reqs[r].body.type = "string")
            => /\ reqs[r].names = <<reqs[r].body.str>>
               /\ reqs[r].calls = <<<<"delete", reqs[r].body.str>>>>
               /\ (IsDone(r) /\ ~reqs[r].failed)
                     => /\ reqs[r].res = Redirect
                        /\ reqs[r].body.str \notin DOMAIN blobs

C6_Witness ==
    \E r \in Reqs :
        /\ reqs[r].kind = "delete" /\ reqs[r].body.type = "string"
        /\ Len(reqs[r].body.str) > 1
        /\ IsDone(r) /\ ~reqs[r].failed

\* A response that tells the client of a failure.
FailureResponse(res) ==
    \/ res.type = "send"
    \/ res.type = "json" /\ res.status = 500 /\ ~res.success

\* C7: in each handler, a step in which a store call throws into the
\* handler's catch ends the request with a failure response and leaves the
\* process listening, so that it takes the requests that follow.
C7_StoreFailureAnswered ==
    [][\A r \in 1..Len(reqs') :
          (reqs'[r].failed /\ (r \in Reqs => ~reqs[r].failed))
              => /\ reqs'[r].pc = "done"
                 /\ FailureResponse(reqs'[r].res)
                 /\ proc' = "listening"]_vars

C7_Witness ==
    \E r1, r2 \in Reqs :
        /\ r1 < r2 /\ proc = "listening"
        /\ reqs[r1].kind = "delete" /\ reqs[r1].failed /\ reqs[r1].status = 404
        /\ reqs[r2].kind = "get" /\ reqs[r2].res.type = "render"

\* C8: GET / fails as a whole exactly when a call has thrown an error that is
\* not a 404: then the answer is the error text with no entry at all,
\* whatever was assembled; otherwise every listed item is rendered, and a
\* 404 of getEntity alone leaves the request running with likes 0.
C8_ListingAllOrNothing ==
    \A r \in Reqs :
        reqs[r].kind = "get"
            => /\ reqs[r].failed <=> reqs[r].status = 500
               /\ reqs[r].failed
                     => IsDone(r) /\ reqs[r].res = SendError /\ reqs[r].res.blobs = <<>>
               /\ (IsDone(r) /\ ~reqs[r].failed)
                     => /\ reqs[r].res.type = "render"
                        /\ Len(reqs[r].res.blobs) = Len(reqs[r].names)
               /\ (reqs[r].pc = "getBlobUrl" /\ reqs[r].status = 404)
                     => reqs[r].likes = 0 /\ ~reqs[r].failed

C8_Witness ==
    \E r \in Reqs :
        /\ reqs[r].kind = "get" /\ reqs[r].failed
        /\ Len(reqs[r].blobUrls) >= 1
        /\ reqs[r].res.blobs = <<>>

\* The upload requests that carried a file.
Uploads(rs) == {r \in 1..Len(rs) : rs[r].kind = "upload" /\ rs[r].file.present}

\* C9: the names generated for uploads are pairwise distinct, and a
\* successful uploadData adds its name as a new item and leaves every
\* existing item as it was.
C9_UploadKeysDistinct ==
    [][/\ \A r1, r2 \in Uploads(reqs') :
            r1 # r2 => reqs'[r1].blobName # reqs'[r2].blobName
       /\ \A r \in Reqs :
            (/\ reqs[r].kind = "upload" /\ reqs[r].pc = "uploadData"
             /\ r \in 1..Len(reqs') /\ IsDone(r)' /\ ~reqs'[r].failed)
                => /\ reqs[r].blobName \notin DOMAIN blobs
                   /\ DOMAIN blobs' = DOMAIN blobs \cup {reqs[r].blobName}
                   /\ \A name \in DOMAIN blobs : blobs'[name] = blobs[name]]_vars

C9_Witness ==
    \E r1, r2 \in Uploads(reqs) :
        /\ r1 # r2
        /\ reqs[r1].file.originalname = reqs[r2].file.originalname
        /\ reqs[r1].at = reqs[r2].at
        /\ {reqs[r1].blobName, reqs[r2].blobName} \subseteq DOMAIN blobs
        /\ reqs[r1].blobName # reqs[r2].blobName

\* C10: a POST /upload without a file is answered with the redirect in the
\* step it arrives in, issues no store call, and leaves the container and
\* the likes table as they were.
C10_UploadWithoutFileIsNoOp ==
    [][\A r \in 1..Len(reqs') :
          (r \notin Reqs /\ reqs'[r].kind = "upload" /\ ~reqs'[r].file.present)
              => /\ reqs'[r].pc = "done"
                 /\ reqs'[r].res = Redirect
                 /\ reqs'[r].calls = <<>>
                 /\ ~reqs'[r].failed
                 /\ blobs' = blobs /\ likesTable' = likesTable]_vars

C10_Witness ==
    \E r \in Reqs :
        /\ reqs[r].kind = "upload" /\ ~reqs[r].file.present
        /\ IsDone(r) /\ reqs[r].res = Redirect
        /\ DOMAIN blobs # {}

\* C11: when the account name or the container name is not set, the process
\* has exited at startup: it is never listening, createTable is never
\* called, no request is ever received and the stores are never touched.
C11_MissingConfigNeverServes ==
    (env.account = <<>> \/ env.container = <<>>)
        => /\ proc = "exited"
           /\ tableInit = "pending"
           /\ reqs = <<>>
           /\ blobs = Empty /\ likesTable = Empty

C11_Witness ==
    /\ env.account # <<>> /\ env.container = <<>>
    /\ proc = "exited" /\ reqs = <<>>

\* C12: the table creation completes once and stays completed; the server
\* takes a request, and a handler resumes, only after it has completed; and
\* the step in which its unexpected failure ends the process finds no
\* request received yet.
C12_TableReadyBeforeServing ==
    [][/\ tableInit = "done" => tableInit' = "done"
       /\ reqs' # reqs => (proc' = "exited" \/ tableInit = "done")
       /\ (proc = "listening" /\ proc' = "exited")
             => (tableInit = "pending" /\ reqs = <<>>)]_vars

\* C13: in a process started on stores that hold an item and its counter
\* record, with each request sent after the response to the one before: a
\* step of GET /, POST /upload or POST /delete, the arrival of a
\* request and the passing of time leave the likes table as it was, so the
\* record of a deleted item stays with its count; the table changes only by
\* the upsertEntity of a like, which writes the count the like has read plus
\* one; and a like reads the record of its name whether or not the item is
\* in the container.
C13_CountersOutliveItems ==
    [][/\ \A r \in 1..Len(reqs') :
            (/\ reqs'[r].kind \in {"get", "upload", "delete"}
             /\ (r \in Reqs => reqs'[r] # reqs[r]))
                => likesTable' = likesTable
       /\ \A name \in DOMAIN blobs \ DOMAIN blobs' :
            /\ likesTable' = likesTable
            /\ name \in DOMAIN likesTable => Stored(name)' = Stored(name)
       /\ likesTable' # likesTable
            => \E r \in Reqs :
                 /\ reqs[r].kind = "like" /\ reqs[r].pc = "upsertEntity"
                 /\ likesTable' = Put(likesTable, reqs[r].blobName, reqs[r].likes)
                 /\ reqs'[r].res = JsonLikes(reqs[r].likes)
       /\ \A r \in Reqs :
            (/\ reqs[r].kind = "like" /\ reqs[r].pc = "getEntity"
             /\ r \in 1..Len(reqs') /\ reqs'[r].pc = "upsertEntity"
             /\ reqs[r].blobName \in DOMAIN likesTable)
                => reqs'[r].likes = likesTable[reqs[r].blobName] + 1]_vars

C13_Witness ==
    \E r1, r2 \in Reqs :
        /\ r1 < r2
        /\ reqs[r1].kind = "delete" /\ IsDone(r1) /\ ~reqs[r1].failed
        /\ reqs[r1].names = <<KeptName>>
        /\ KeptName \notin DOMAIN blobs
        /\ reqs[r2].kind = "like" /\ reqs[r2].blobName = KeptName
        /\ reqs[r2].res = JsonLikes(2)
        /\ likesTable[KeptName] = 2

====
